---------------------------- MODULE Spec2Model ----------------------------
(***************************************************************************)
(* Model of the PE fund matcher (src/llm_pe_matcher): the scoring engine   *)
(* query_pe_db of tools.py and the shortlist selector shortlist_pe_funds   *)
(* of matcher.py.                                                          *)
(*                                                                         *)
(* Representation.                                                         *)
(*  - A Python str is a tuple of one-character strings, so that lower()    *)
(*    and the substring test `x in t` are computed, not assumed.           *)
(*  - A JSON value read from the dataset or passed in a profile/criteria   *)
(*    is a tagged record: None, Num(n), Str(s), List(seq), Dict(f).  A     *)
(*    dict is a function whose DOMAIN is the set of keys present, so a     *)
(*    missing key and a key holding None are different things.             *)
(*  - A Python float is an exact rational [n, d] in lowest terms.  The     *)
(*    model's inputs never put a product weight * raw on a rounding tie,   *)
(*    where binary floating point and exact arithmetic could part.         *)
(*  - Money and head counts are integers in an arbitrary unit.             *)
(*  - A call that raises ends with pc = "raised" and the name of the       *)
(*    exception in error; nothing is returned then.                        *)
(*  - The dashboard (src/streamlit_app.py) is a script that reruns on      *)
(*    every interaction; one rerun is one step, and the texts of its       *)
(*    context area are plain strings.                                      *)
(***************************************************************************)
EXTENDS Integers, Sequences, FiniteSets, TLC

VARIABLES
    file,       \* what open() and json.load() find at dataset_path
    dataset,    \* the list of funds stored at dataset_path
    pc,         \* the call to make, or how the call ended
    criteria,   \* the criteria dict passed to query_pe_db
    profile,    \* the company_profile passed to shortlist_pe_funds
    top_k,      \* the top_k passed to shortlist_pe_funds
    ranked,     \* the list query_pe_db returned
    out,        \* the list shortlist_pe_funds returned
    error,      \* the exception the call raised, "none" if it raised none
    session_state,  \* st.session_state of the dashboard: a dict
    run_btn,    \* the value of the Analyze button in the latest rerun
    clear_btn,  \* the value of the Clear chat button in the latest rerun
    user_msg    \* the text of the context area in the latest rerun

dashboard_vars == <<session_state, run_btn, clear_btn, user_msg>>

vars ==
    <<file, dataset, pc, criteria, profile, top_k, ranked, out, error,
      session_state, run_btn, clear_btn, user_msg>>

---------------------------------------------------------------------------
(* Bounds of the model *)

\* longest dataset of the ranking specification
MaxFunds == 3
\* largest top_k passed to shortlist_pe_funds
MaxTopK == 2
\* largest range bound (revenue, employees) of the scoring specification
MaxVal == 5
\* longest list of locations of the region specification
MaxLocs == 3
\* longest chat of the dashboard specification
MaxChat == 4

---------------------------------------------------------------------------
(* Python values *)

None == [t |-> "none"]
Num(n) == [t |-> "num", v |-> n]
Str(s) == [t |-> "str", v |-> s]
List(s) == [t |-> "list", v |-> s]
Dict(f) == [t |-> "dict", v |-> f]

EmptyDict == Dict(<<>>)
EmptyList == List(<<>>)
EmptyStr == Str(<<>>)

\* dict.get(k, default)
Get(d, k, default) == IF k \in DOMAIN d THEN d[k] ELSE default

\* bool(v)
Truthy(v) ==
    CASE v.t = "none" -> FALSE
      [] v.t = "num" -> v.v # 0
      [] v.t = "str" -> Len(v.v) > 0
      [] v.t = "list" -> Len(v.v) > 0
      [] v.t = "dict" -> DOMAIN v.v # {}

\* a or b
Or(a, b) == IF Truthy(a) THEN a ELSE b

Range(s) == {s[i] : i \in DOMAIN s}

UpperCase ==
    <<"A", "B", "C", "D", "E", "F", "G", "H", "I", "J", "K", "L", "M",
      "N", "O", "P", "Q", "R", "S", "T", "U", "V", "W", "X", "Y", "Z">>

LowerCase ==
    <<"a", "b", "c", "d", "e", "f", "g", "h", "i", "j", "k", "l", "m",
      "n", "o", "p", "q", "r", "s", "t", "u", "v", "w", "x", "y", "z">>

\* the characters of the model in code point order
CodeOrder == <<" ", ",">> \o UpperCase \o LowerCase

Chars == {CodeOrder[i] : i \in DOMAIN CodeOrder}

\* the lower case of each character
LowerChar ==
    [c \in Chars |->
        IF \E i \in DOMAIN UpperCase : UpperCase[i] = c
        THEN LowerCase[CHOOSE i \in DOMAIN UpperCase : UpperCase[i] = c]
        ELSE c]

\* str.lower()
Lower(s) == [i \in DOMAIN s |-> LowerChar[s[i]]]

\* x in t, for two strings
Contains(t, x) ==
    \E i \in 0..(Len(t) - Len(x)) : SubSeq(t, i + 1, i + Len(x)) = x

\* the rank of each character in code point order
Code == [c \in Chars |-> CHOOSE i \in DOMAIN CodeOrder : CodeOrder[i] = c]

\* a < b, for two strings
StrLess(a, b) ==
    \E i \in 1..Len(b) :
        /\ i <= Len(a) + 1
        /\ \A j \in 1..(i - 1) : a[j] = b[j]
        /\ (i = Len(a) + 1 \/ Code[a[i]] < Code[b[i]])

\* sorted(list(S)), for a set of strings
RECURSIVE SortedStrs(_)
SortedStrs(S) ==
    IF S = {} THEN <<>>
    ELSE LET m == CHOOSE x \in S : \A y \in S \ {x} : StrLess(x, y)
         IN <<m>> \o SortedStrs(S \ {m})

---------------------------------------------------------------------------
(* Floats as exact rationals *)

Abs(x) == IF x < 0 THEN -x ELSE x

RECURSIVE GCD(_, _)
GCD(a, b) == IF b = 0 THEN a ELSE GCD(b, a % b)

Rat(n, d) ==
    LET g == GCD(Abs(n), Abs(d))
        s == IF d < 0 THEN -1 ELSE 1
    IN [n |-> s * (n \div g), d |-> s * (d \div g)]

Zero == Rat(0, 1)
One == Rat(1, 1)

RatAdd(a, b) == Rat(a.n * b.d + b.n * a.d, a.d * b.d)
RatMul(a, b) == Rat(a.n * b.n, a.d * b.d)
RatDiv(a, b) == Rat(a.n * b.d, a.d * b.n)
\* a < b: by the integer parts, then by the fractional parts (the products
\* stay small when one side is the tiny 1e-9)
RatLess(a, b) ==
    LET qa == a.n \div a.d
        qb == b.n \div b.d
    IN IF qa # qb THEN qa < qb
       ELSE (a.n % a.d) * b.d < (b.n % b.d) * a.d

RatLeq(a, b) == ~RatLess(b, a)
RatMax(a, b) == IF RatLess(a, b) THEN b ELSE a
RatMin(a, b) == IF RatLess(b, a) THEN b ELSE a

Max(a, b) == IF a < b THEN b ELSE a
Min(a, b) == IF b < a THEN b ELSE a

\* round(x): to the nearest integer, a tie to the even one
RoundHalfEven(n, d) ==
    LET q == n \div d
        r == n % d
    IN IF 2 * r < d THEN q
       ELSE IF 2 * r > d THEN q + 1
       ELSE IF q % 2 = 0 THEN q ELSE q + 1

\* round(x, 4)
Round4(x) == Rat(RoundHalfEven(x.n * 10000, x.d), 10000)

---------------------------------------------------------------------------
(* tools.py: query_pe_db *)

\* five equal weights
WeightsEven ==
    [industry |-> Rat(2, 10), region |-> Rat(2, 10), revenue |-> Rat(2, 10),
     employees |-> Rat(2, 10), deal |-> Rat(2, 10)]

\* weights of score_with_breakdown
Weights ==
    [industry |-> Rat(4, 10), region |-> Rat(2, 10), revenue |-> Rat(2, 10),
     employees |-> Rat(1, 10), deal |-> Rat(1, 10)]

\* the 1e-9 of _range_coverage
Eps == Rat(1, 1000000000)

\* the variables query_pe_db computes from criteria before it scores a fund:
\*   inds = set([i.lower() for i in criteria.get("industries", [])])
\*   regs = set([r.lower() for r in criteria.get("regions", [])])
\*   rev = criteria.get("revenue_usd") or {}
\*   emp = criteria.get("employees") or {}
\*   deal = (criteria.get("deal_type") or "").lower()
prepare(c) ==
    [inds |-> {Lower(i.v) : i \in Range(Get(c, "industries", EmptyList).v)},
     regs |-> {Lower(r.v) : r \in Range(Get(c, "regions", EmptyList).v)},
     rev |-> Or(Get(c, "revenue_usd", None), EmptyDict),
     emp |-> Or(Get(c, "employees", None), EmptyDict),
     deal |-> Lower(Or(Get(c, "deal_type", None), EmptyStr).v)]

\* _range_coverage dividing by the length of the fund's interval
range_coverage_of_fund(cmin, cmax, fmin, fmax) ==
    IF cmin = None \/ cmax = None \/ fmin = None \/ fmax = None THEN None
    ELSE IF cmax.v < cmin.v \/ fmax.v < fmin.v THEN Zero
    ELSE LET inter_min == Max(cmin.v, fmin.v)
             inter_max == Min(cmax.v, fmax.v)
             inter == RatMax(Zero, Rat(inter_max - inter_min, 1))
             flen == RatMax(Eps, Rat(fmax.v - fmin.v, 1))
         IN RatMax(Zero, RatMin(One, RatDiv(inter, flen)))

\* _range_coverage: None, or the coverage ratio as a rational
range_coverage(cmin, cmax, fmin, fmax) ==
    IF cmin = None \/ cmax = None \/ fmin = None \/ fmax = None THEN None
    ELSE IF cmax.v < cmin.v \/ fmax.v < fmin.v THEN Zero
    ELSE LET inter_min == Max(cmin.v, fmin.v)
             inter_max == Min(cmax.v, fmax.v)
             inter == RatMax(Zero, Rat(inter_max - inter_min, 1))
             clen == RatMax(Eps, Rat(cmax.v - cmin.v, 1))
         IN RatMax(Zero, RatMin(One, RatDiv(inter, clen)))

\* NotApplied counting the absent factor as a full match
NotAppliedFull(w) == [sub |-> [applied |-> FALSE, weight |-> w], add |-> w]

\* a factor absent from the criteria: its subscore, and nothing added to total
NotApplied(w) == [sub |-> [applied |-> FALSE, weight |-> w], add |-> Zero]

\* industry_raw without the division by the number of industries
industry_raw_count(overlap, n) == Rat(overlap, 1)

\* industry_raw as the region factor computes its raw value
industry_raw_binary(overlap, n) == IF overlap > 0 THEN One ELSE Zero

\* raw = min(1.0, overlap / max(1, len(inds)))
industry_raw(overlap, n) == RatMin(One, Rat(overlap, Max(1, n)))

\* the industry factor: its subscore and its addition to total
industry_subscore(f, q, W) ==
    IF q.inds # {}
    THEN LET fund_inds == [i \in DOMAIN Get(f, "industries", EmptyList).v |->
                              Lower(Get(f, "industries", EmptyList).v[i].v)]
             overlap == Cardinality(q.inds \cap Range(fund_inds))
             raw == industry_raw(overlap, Cardinality(q.inds))
             contrib == RatMul(W.industry, raw)
         IN [sub |-> [applied |-> TRUE,
                      raw |-> raw,
                      overlap_count |-> overlap,
                      company_count |-> Cardinality(q.inds),
                      weight |-> W.industry,
                      contribution |-> Round4(contrib),
                      company_industries |-> SortedStrs(q.inds),
                      fund_industries |-> Get(f, "industries", EmptyList)],
             add |-> contrib]
    ELSE NotApplied(W.industry)

\* region_raw as the industry factor computes its raw value
region_raw_ratio(overlap, n) == RatMin(One, Rat(overlap, Max(1, n)))

\* raw = 1.0 if overlap > 0 else 0.0, n being len(regs), which the code
\* does not look at
region_raw(overlap, n) == IF overlap > 0 THEN One ELSE Zero

\* the region factor
region_subscore(f, q, W) ==
    IF q.regs # {}
    THEN LET fund_regs == [i \in DOMAIN Get(f, "regions", EmptyList).v |->
                              Lower(Get(f, "regions", EmptyList).v[i].v)]
             overlap == Cardinality(q.regs \cap Range(fund_regs))
             raw == region_raw(overlap, Cardinality(q.regs))
             contrib == RatMul(W.region, raw)
         IN [sub |-> [applied |-> TRUE,
                      raw |-> raw,
                      overlap_count |-> overlap,
                      weight |-> W.region,
                      contribution |-> Round4(contrib),
                      company_regions |-> SortedStrs(q.regs),
                      fund_regions |-> Get(f, "regions", EmptyList)],
             add |-> contrib]
    ELSE NotApplied(W.region)

\* lo_ok with a strict comparison
lo_ok_strict(rmin, fmin) == rmin = None \/ fmin = None \/ rmin.v > fmin.v

\* lo_ok and hi_ok of the revenue and employees factors
lo_ok(rmin, fmin) == rmin = None \/ fmin = None \/ rmin.v >= fmin.v
hi_ok(rmax, fmax) == rmax = None \/ fmax = None \/ rmax.v <= fmax.v

\* the revenue and the employees factor share their code: r is the company's
\* range (rev or emp), f_r the fund's (f_rev or f_emp), w the factor's weight
range_subscore(r, f_r, w) ==
    IF Truthy(r)
    THEN LET rmin == Get(r.v, "min", None)
             rmax == Get(r.v, "max", None)
             fmin == Get(f_r.v, "min", None)
             fmax == Get(f_r.v, "max", None)
             binary_fit == IF lo_ok(rmin, fmin) /\ hi_ok(rmax, fmax) THEN One ELSE Zero
             coverage == range_coverage(rmin, rmax, fmin, fmax)
             raw == binary_fit
             contrib == RatMul(w, raw)
         IN [sub |-> [applied |-> TRUE,
                      raw |-> raw,
                      binary_fit |-> binary_fit,
                      coverage_ratio |-> coverage,
                      company_range |-> r,
                      fund_range |-> f_r,
                      weight |-> w,
                      contribution |-> Round4(contrib)],
             add |-> contrib]
    ELSE NotApplied(w)

revenue_subscore(f, q, W) ==
    range_subscore(q.rev, Get(f, "revenue_focus_usd", EmptyDict), W.revenue)

employees_subscore(f, q, W) ==
    range_subscore(q.emp, Get(f, "employee_focus", EmptyDict), W.employees)

\* deal_in giving a Buyout request credit for the adjacent types
deal_in_adjacent(deal, fund_deals) ==
    \/ deal \in fund_deals
    \/ /\ deal = <<"b", "u", "y", "o", "u", "t">>
       /\ fund_deals \cap {<<"m", "a", "j", "o", "r", "i", "t", "y">>,
                           <<"c", "o", "n", "t", "r", "o", "l">>} # {}

\* deal in [d.lower() for d in f.get("deal_types", [])]
deal_in(deal, fund_deals) == deal \in fund_deals

\* the deal type factor
deal_subscore(f, q, W) ==
    IF q.deal # <<>>
    THEN LET fund_deals == {Lower(d.v) : d \in Range(Get(f, "deal_types", EmptyList).v)}
             raw == IF deal_in(q.deal, fund_deals) THEN One ELSE Zero
             contrib == RatMul(W.deal, raw)
         IN [sub |-> [applied |-> TRUE,
                      raw |-> raw,
                      company_deal_type |-> q.deal,
                      fund_deal_types |-> Get(f, "deal_types", EmptyList),
                      weight |-> W.deal,
                      contribution |-> Round4(contrib)],
             add |-> contrib]
    ELSE NotApplied(W.deal)

\* the score left unrounded
final_score_unrounded(total) == total

\* "score": round(total, 4)
final_score(total) == Round4(total)

\* score_with_breakdown, with the weights W as a parameter
score_with_weights(f, q, W) ==
    LET i == industry_subscore(f, q, W)
        g == region_subscore(f, q, W)
        r == revenue_subscore(f, q, W)
        e == employees_subscore(f, q, W)
        d == deal_subscore(f, q, W)
        total == RatAdd(RatAdd(RatAdd(RatAdd(RatAdd(Zero, i.add), g.add), r.add), e.add), d.add)
    IN [score |-> final_score(total),
        subscores |-> [industry |-> i.sub, region |-> g.sub, revenue |-> r.sub,
                       employees |-> e.sub, deal |-> d.sub]]

score_with_breakdown(f, q) == score_with_weights(f, q, Weights)

\* match_row filling the fund's missing range fields in (f.setdefault)
match_row_defaulted(f) ==
    f @@ [revenue_focus_usd |-> EmptyDict, employee_focus |-> EmptyDict]

\* "match": f, the loaded fund dict itself, which score_with_breakdown has
\* only read (f.get)
match_row(f) == f

\* one entry of scored
scored_entry(f, q, W) ==
    LET s == score_with_weights(f, q, W)
    IN [fund |-> f["name"], score |-> s.score, match |-> match_row(f),
        subscores |-> s.subscores]

\* SortedByScore placing an entry before the entries of equal score
RECURSIVE SortedByScoreUnstable(_)
SortedByScoreUnstable(s) ==
    IF s = <<>> THEN <<>>
    ELSE LET front == SortedByScoreUnstable(SubSeq(s, 1, Len(s) - 1))
             x == s[Len(s)]
             k == Cardinality({j \in DOMAIN front : RatLess(x.score, front[j].score)})
         IN SubSeq(front, 1, k) \o <<x>> \o SubSeq(front, k + 1, Len(front))

\* SortedByScore in ascending order (reverse=True left out)
RECURSIVE SortedByScoreAscending(_)
SortedByScoreAscending(s) ==
    IF s = <<>> THEN <<>>
    ELSE LET front == SortedByScoreAscending(SubSeq(s, 1, Len(s) - 1))
             x == s[Len(s)]
             k == Cardinality({j \in DOMAIN front : RatLeq(front[j].score, x.score)})
         IN SubSeq(front, 1, k) \o <<x>> \o SubSeq(front, k + 1, Len(front))

\* sorted(scored, key=score, reverse=True): a stable sort, so an entry goes
\* behind every entry already placed whose score is not smaller
RECURSIVE SortedByScore(_)
SortedByScore(s) ==
    IF s = <<>> THEN <<>>
    ELSE LET front == SortedByScore(SubSeq(s, 1, Len(s) - 1))
             x == s[Len(s)]
             k == Cardinality({j \in DOMAIN front : RatLeq(x.score, front[j].score)})
         IN SubSeq(front, 1, k) \o <<x>> \o SubSeq(front, k + 1, Len(front))

\* load_error with the failure swallowed (except: funds = [])
load_error_swallowed(f) == "none"

\* with open(dataset_path) as f: funds = json.load(f): the exception raised
\* for the state f of the path, "none" when the list is loaded
load_error(f) ==
    CASE f = "ok" -> "none"
      [] f = "missing" -> "FileNotFoundError"
      [] f = "unreadable" -> "PermissionError"
      [] f = "unparsable" -> "JSONDecodeError"

\* the exception the lines that read criteria raise: a null list is iterated
criteria_error(c) ==
    IF Get(c, "industries", EmptyList) = None \/ Get(c, "regions", EmptyList) = None
    THEN "TypeError"
    ELSE "none"

\* the exception scoring the fund f raises: a null list is iterated, .get is
\* called on a null range, or the name is missing
fund_error(f, q) ==
    IF q.inds # {} /\ Get(f, "industries", EmptyList) = None THEN "TypeError"
    ELSE IF q.regs # {} /\ Get(f, "regions", EmptyList) = None THEN "TypeError"
    ELSE IF Truthy(q.rev) /\ Get(f, "revenue_focus_usd", EmptyDict) = None
         THEN "AttributeError"
    ELSE IF Truthy(q.emp) /\ Get(f, "employee_focus", EmptyDict) = None
         THEN "AttributeError"
    ELSE IF q.deal # <<>> /\ Get(f, "deal_types", EmptyList) = None THEN "TypeError"
    ELSE IF "name" \notin DOMAIN f THEN "KeyError"
    ELSE "none"

\* the exception query_pe_db raises after it loaded funds: that of the
\* criteria, else that of the first fund that raises one
scoring_error(c, funds) ==
    IF criteria_error(c) # "none" THEN criteria_error(c)
    ELSE LET q == prepare(c)
             bad == {i \in DOMAIN funds : fund_error(funds[i], q) # "none"}
         IN IF bad = {} THEN "none"
            ELSE fund_error(funds[CHOOSE i \in bad : \A j \in bad : i <= j], q)

\* the exception a call of query_pe_db raises, "none" if it returns
query_error(c, f, funds) ==
    IF load_error(f) # "none" THEN load_error(f) ELSE scoring_error(c, funds)

\* the list funds after the call: the for loop reads it and sorted() builds
\* a new list, so it holds the same dicts in the same order
funds_after(funds) == [i \in DOMAIN funds |-> match_row(funds[i])]

\* query_pe_db, with the weights W as a parameter
query_with_weights(c, funds, W) ==
    LET q == prepare(c)
    IN SortedByScore([i \in DOMAIN funds |-> scored_entry(funds[i], q, W)])

\* query_pe_db(criteria, dataset_path), funds being the list read from the path
query_pe_db(c, funds) == query_with_weights(c, funds, Weights)

---------------------------------------------------------------------------
(* String literals *)

S_Software == <<"S", "o", "f", "t", "w", "a", "r", "e">>
S_SOFTWARE == <<"S", "O", "F", "T", "W", "A", "R", "E">>
S_Industrial == <<"I", "n", "d", "u", "s", "t", "r", "i", "a", "l">>
S_Healthcare == <<"H", "e", "a", "l", "t", "h", "c", "a", "r", "e">>
S_US == <<"U", "S">>
S_us == <<"u", "s">>
S_Canada == <<"C", "a", "n", "a", "d", "a">>
S_Europe == <<"E", "u", "r", "o", "p", "e">>
S_Buyout == <<"B", "u", "y", "o", "u", "t">>
S_BUYOUT == <<"B", "U", "Y", "O", "U", "T">>
S_Growth == <<"G", "r", "o", "w", "t", "h">>
S_Minority == <<"M", "i", "n", "o", "r", "i", "t", "y">>
S_Majority == <<"M", "a", "j", "o", "r", "i", "t", "y">>
S_Control == <<"C", "o", "n", "t", "r", "o", "l">>
L_SanFrancisco ==
    <<"S", "a", "n", " ", "F", "r", "a", "n", "c", "i", "s", "c", "o", ",",
      " ", "C", "a", "l", "i", "f", "o", "r", "n", "i", "a", ",", " ", "U",
      "S", "A">>
L_London == <<"L", "o", "n", "d", "o", "n", ",", " ", "U", "K">>
L_Toronto ==
    <<"T", "o", "r", "o", "n", "t", "o", ",", " ", "C", "a", "n", "a", "d",
      "a">>
L_Berlin == <<"B", "e", "r", "l", "i", "n">>
L_Brussels ==
    <<"B", "r", "u", "s", "s", "e", "l", "s", ",", " ", "E", "u", "r", "o",
      "p", "e">>
L_Augusta ==
    <<"A", "u", "g", "u", "s", "t", "a", ",", " ", "O", "n", "t", "a", "r",
      "i", "o">>
L_Munich ==
    <<"M", "u", "n", "i", "c", "h", ",", " ", "G", "e", "r", "m", "a", "n",
      "y">>

\* the keywords of the region heuristic of shortlist_pe_funds
K_united_states ==
    <<"u", "n", "i", "t", "e", "d", " ", "s", "t", "a", "t", "e", "s">>
K_usa == <<"u", "s", "a">>
K_us == <<"u", "s">>
K_california == <<"c", "a", "l", "i", "f", "o", "r", "n", "i", "a">>
K_texas == <<"t", "e", "x", "a", "s">>
K_ny == <<"n", "y">>
K_new_york == <<"n", "e", "w", " ", "y", "o", "r", "k">>
K_canada == <<"c", "a", "n", "a", "d", "a">>
K_ontario == <<"o", "n", "t", "a", "r", "i", "o">>
K_quebec == <<"q", "u", "e", "b", "e", "c">>
K_uk == <<"u", "k">>
K_united_kingdom ==
    <<"u", "n", "i", "t", "e", "d", " ", "k", "i", "n", "g", "d", "o", "m">>
K_england == <<"e", "n", "g", "l", "a", "n", "d">>
K_london == <<"l", "o", "n", "d", "o", "n">>
K_europe == <<"e", "u", "r", "o", "p", "e">>

\* the phrases of the rationale summary
R_industry == <<"i", "n", "d", "u", "s", "t", "r", "y", " ", "f", "i", "t">>
R_region == <<"r", "e", "g", "i", "o", "n", " ", "f", "i", "t">>
R_revenue ==
    <<"r", "e", "v", "e", "n", "u", "e", " ", "r", "a", "n", "g", "e", " ",
      "c", "o", "m", "p", "a", "t", "i", "b", "l", "e">>
R_employees ==
    <<"e", "m", "p", "l", "o", "y", "e", "e", " ", "r", "a", "n", "g", "e",
      " ", "c", "o", "m", "p", "a", "t", "i", "b", "l", "e">>
R_generalist ==
    <<"g", "e", "n", "e", "r", "a", "l", "i", "s", "t", " ", "f", "l", "e",
      "x", "i", "b", "i", "l", "i", "t", "y">>
CommaSpace == <<",", " ">>

---------------------------------------------------------------------------
(* matcher.py: shortlist_pe_funds *)

US_KEYWORDS == <<K_united_states, K_usa, K_us, K_california, K_texas, K_ny, K_new_york>>
CANADA_KEYWORDS == <<K_canada, K_ontario, K_quebec>>
EUROPE_KEYWORDS == <<K_uk, K_united_kingdom, K_england, K_london, K_europe>>

\* any(x in t for x in keywords)
AnyIn(keywords, t) == \E i \in DOMAIN keywords : Contains(t, keywords[i])

\* loc_labels without the lower() of the text
loc_labels_as_written(loc) ==
    LET t == Or(loc, EmptyStr).v
    IN IF AnyIn(US_KEYWORDS, t) THEN <<S_US>>
       ELSE IF AnyIn(CANADA_KEYWORDS, t) THEN <<S_Canada>>
       ELSE IF AnyIn(EUROPE_KEYWORDS, t) THEN <<S_Europe>>
       ELSE <<>>

\* loc_labels testing the Canada keywords first
loc_labels_canada_first(loc) ==
    LET t == Lower(Or(loc, EmptyStr).v)
    IN IF AnyIn(CANADA_KEYWORDS, t) THEN <<S_Canada>>
       ELSE IF AnyIn(US_KEYWORDS, t) THEN <<S_US>>
       ELSE IF AnyIn(EUROPE_KEYWORDS, t) THEN <<S_Europe>>
       ELSE <<>>

\* the labels one location appends to reg_labels: one label or none
loc_labels(loc) ==
    LET t == Lower(Or(loc, EmptyStr).v)
    IN IF AnyIn(US_KEYWORDS, t) THEN <<S_US>>
       ELSE IF AnyIn(CANADA_KEYWORDS, t) THEN <<S_Canada>>
       ELSE IF AnyIn(EUROPE_KEYWORDS, t) THEN <<S_Europe>>
       ELSE <<>>

\* the for loop over the locations
RECURSIVE all_labels(_)
all_labels(locs) ==
    IF locs = <<>> THEN <<>>
    ELSE all_labels(SubSeq(locs, 1, Len(locs) - 1)) \o loc_labels(locs[Len(locs)])

\* list(dict.fromkeys(s)): the first occurrence of each element, in order
RECURSIVE dedupe(_)
dedupe(s) ==
    IF s = <<>> THEN <<>>
    ELSE LET front == dedupe(SubSeq(s, 1, Len(s) - 1))
         IN IF s[Len(s)] \in Range(front) THEN front ELSE Append(front, s[Len(s)])

\* reg_labels, a list of str
reg_labels(p) == dedupe(all_labels(Get(p, "locations", EmptyList).v))

StrList(s) == List([i \in DOMAIN s |-> Str(s[i])])

\* a default region of Europe
DefaultRegionsEurope == <<S_Europe>>

\* the default of criteria["regions"]
DefaultRegions == <<S_US>>

\* DEFAULT_TOP_K
DEFAULT_TOP_K == 5

\* the criteria dict shortlist_pe_funds passes to query_pe_db
derive_criteria(p) ==
    LET base == [industries |-> Get(p, "industries", EmptyList),
                 regions |-> Or(StrList(reg_labels(p)), StrList(DefaultRegions)),
                 deal_type |-> Str(S_Buyout)]
        r == Or(Get(p, "revenue_range_usd", None), EmptyDict)
        e == Or(Get(p, "employee_count_range", None), EmptyDict)
        withRev == IF Truthy(r) THEN ("revenue_usd" :> r) ELSE <<>>
        withEmp == IF Truthy(e) THEN ("employees" :> e) ELSE <<>>
    IN base @@ withRev @@ withEmp

\* the exception the loop over the locations raises: a null list is iterated
locations_error(p) ==
    IF Get(p, "locations", EmptyList) = None THEN "TypeError" ELSE "none"

\* the exception a call of shortlist_pe_funds raises, "none" if it returns:
\* that of the region heuristic, else that of its query_pe_db call
shortlist_error(p, f, funds) ==
    IF locations_error(p) # "none" THEN locations_error(p)
    ELSE query_error(derive_criteria(p), f, funds)

\* s[:n]
Prefix(s, n) ==
    IF n >= 0 THEN SubSeq(s, 1, Min(n, Len(s)))
    ELSE SubSeq(s, 1, Max(0, Len(s) + n))

LowerSet(l) == {Lower(x.v) : x \in Range(l.v)}

\* sep.join(s)
RECURSIVE Join(_, _)
Join(sep, s) ==
    IF s = <<>> THEN <<>>
    ELSE IF Len(s) = 1 THEN s[1]
    ELSE Join(sep, SubSeq(s, 1, Len(s) - 1)) \o sep \o s[Len(s)]

\* the reasons found for one ranked entry r; industries, labels, r_rev and
\* r_emp are the function's variables industries, reg_labels, rev and emp
reasons(industries, labels, r_rev, r_emp, r) ==
    LET f == r.match
        found ==
            (IF Truthy(industries)
                /\ LowerSet(industries) \cap LowerSet(Get(f, "industries", EmptyList)) # {}
             THEN <<R_industry>> ELSE <<>>)
            \o (IF Truthy(labels)
                   /\ LowerSet(labels) \cap LowerSet(Get(f, "regions", EmptyList)) # {}
                THEN <<R_region>> ELSE <<>>)
            \o (IF Truthy(r_rev) THEN <<R_revenue>> ELSE <<>>)
            \o (IF Truthy(r_emp) THEN <<R_employees>> ELSE <<>>)
    IN IF found # <<>> THEN found ELSE <<R_generalist>>

\* one entry of out, before the threshold
out_entry(industries, labels, r_rev, r_emp, r) ==
    [fund |-> r.fund,
     score |-> r.score,
     rationale |-> [summary |-> Join(CommaSpace, reasons(industries, labels, r_rev, r_emp, r)),
                    subscores |-> r.subscores]]

\* a threshold of 0.1
ThresholdLow == Rat(1, 10)

\* the score threshold of the shortlist
Threshold == Rat(2, 10)

\* how many ranked funds are looked at, for a given top_k
Fetch(k) == k * 2

\* the part of shortlist_pe_funds after its query_pe_db call, rk being the
\* list the call returned
select_shortlist(p, rk, k) ==
    LET industries == Get(p, "industries", EmptyList)
        labels == StrList(reg_labels(p))
        r_rev == Or(Get(p, "revenue_range_usd", None), EmptyDict)
        r_emp == Or(Get(p, "employee_count_range", None), EmptyDict)
        fetched == Prefix(rk, Fetch(k))
        entries == [i \in DOMAIN fetched |->
                       out_entry(industries, labels, r_rev, r_emp, fetched[i])]
    IN Prefix(SelectSeq(entries, LAMBDA x : RatLeq(Threshold, x.score)), k)

---------------------------------------------------------------------------
(* Inputs *)

\* a dict with one optional entry: absent when present is FALSE
Entry(present, k, v) == IF present THEN (k :> v) ELSE <<>>

Seqs(S, n) == UNION {[1..m -> S] : m \in 0..n}

\* the sequences without repetition of at most n elements of S
DistinctSeqs(S, n) == {s \in Seqs(S, n) : \A i, j \in DOMAIN s : s[i] = s[j] => i = j}

\* the states of a dataset_path that does not load
FailingFiles == {"missing", "unreadable", "unparsable"}

\* a range bound: unset, or a number of units (of 10,000,000 USD, of 10 heads)
Bounds == {None} \cup {Num(n) : n \in 0..MaxVal}

\* range dicts: both keys present, one of them missing, none
RangeDicts ==
    {Dict([min |-> a, max |-> b]) : a, b \in Bounds}
    \cup {Dict([min |-> Num(1)]), Dict([max |-> Num(2)]), EmptyDict}

\* what a fund may hold as revenue_focus_usd or employee_focus
FundRanges == {Entry(FALSE, "k", None)} \cup {Entry(TRUE, "k", r) : r \in RangeDicts}

Fund(name, industries, regions, deal_types) ==
    [name |-> name, industries |-> StrList(industries), regions |-> StrList(regions),
     deal_types |-> StrList(deal_types)]

WithKey(e, k) == IF DOMAIN e = {} THEN <<>> ELSE (k :> e["k"])

R(lo, hi) == Dict([min |-> Num(lo), max |-> Num(hi)])

FundIndustries ==
    {<<>>, <<S_Software>>, <<S_SOFTWARE, S_Industrial>>,
     <<S_Industrial, S_Healthcare, S_Software>>}
FundRegions == {<<S_US>>, <<S_Europe>>, <<S_us, S_Canada>>}
FundDeals ==
    {<<S_Buyout>>, <<S_Growth, S_Minority>>, <<S_BUYOUT, S_Growth>>,
     <<S_Majority, S_Control>>}

CriteriaIndustries ==
    {Entry(FALSE, "industries", None)}
    \cup {Entry(TRUE, "industries", StrList(s)) :
            s \in {<<>>, <<S_Software>>, <<S_Software, S_SOFTWARE>>,
                   <<S_SOFTWARE, S_Healthcare>>,
                   <<S_Software, S_Industrial, S_Healthcare>>}}
CriteriaRegions ==
    {Entry(TRUE, "regions", StrList(s)) :
        s \in {<<>>, <<S_US>>, <<S_Europe, S_Canada>>, <<S_US, S_Canada>>}}
CriteriaDeals ==
    {Entry(FALSE, "deal_type", None)}
    \cup {Entry(TRUE, "deal_type", d) : d \in {None, EmptyStr, Str(S_Buyout), Str(S_Growth)}}
CriteriaRevenue == {Entry(FALSE, "revenue_usd", None), Entry(TRUE, "revenue_usd", R(2, 2))}
CriteriaEmployees == {Entry(FALSE, "employees", None), Entry(TRUE, "employees", R(2, 3))}

\* The funds of the ranking specification
FundA == Fund("FundA", <<S_Software>>, <<S_US>>, <<S_Buyout>>)
FundB == Fund("FundB", <<S_Industrial>>, <<S_Europe>>, <<S_Growth>>)
FundC ==
    Fund("FundC", <<S_SOFTWARE, S_Healthcare>>, <<S_us, S_Canada>>, <<S_Buyout, S_Growth>>)
    @@ [revenue_focus_usd |-> R(1, 5), employee_focus |-> R(1, 3)]
FundD ==
    Fund("FundD", <<S_Healthcare>>, <<S_US>>, <<S_Minority>>)
    @@ [revenue_focus_usd |-> R(3, 4)]
FundPool == {FundA, FundB, FundC, FundD}

Datasets == DistinctSeqs(FundPool, MaxFunds)

ProfileIndustries ==
    {Entry(FALSE, "industries", None)}
    \cup {Entry(TRUE, "industries", StrList(s)) :
            s \in {<<>>, <<S_Software>>, <<S_SOFTWARE, S_Healthcare, S_Industrial>>}}
ProfileLocations ==
    {Entry(FALSE, "locations", None)}
    \cup {Entry(TRUE, "locations", StrList(s)) :
            s \in {<<>>, <<L_SanFrancisco>>, <<L_London>>, <<L_Toronto, L_London>>}}
ProfileRevenue ==
    {Entry(FALSE, "revenue_range_usd", None), Entry(TRUE, "revenue_range_usd", R(2, 2))}
ProfileEmployees ==
    {Entry(FALSE, "employee_count_range", None),
     Entry(TRUE, "employee_count_range", R(2, 4))}

Profiles ==
    {pi @@ pl @@ pr @@ pe : pi \in ProfileIndustries, pl \in ProfileLocations,
                            pr \in ProfileRevenue, pe \in ProfileEmployees}

TopKs == (0..MaxTopK) \cup {DEFAULT_TOP_K}

\* an optional field k: missing, null, or holding the well-formed value v
Field(k, v) == {<<>>, k :> None, k :> v}

\* the profiles and the funds of the field specification
FieldProfiles ==
    {pi @@ pl @@ pr @@ pe :
        pi \in Field("industries", StrList(<<S_Software>>)),
        pl \in Field("locations", StrList(<<L_Toronto>>)),
        pr \in Field("revenue_range_usd", R(2, 2)),
        pe \in Field("employee_count_range", R(2, 4))}

FieldFunds ==
    {[name |-> "FundF"] @@ fi @@ fg @@ fr @@ fe @@ fd :
        fi \in Field("industries", StrList(<<S_SOFTWARE, S_Healthcare>>)),
        fg \in Field("regions", StrList(<<S_us, S_Canada>>)),
        fr \in Field("revenue_focus_usd", R(1, 5)),
        fe \in Field("employee_focus", R(1, 3)),
        fd \in Field("deal_types", StrList(<<S_Buyout, S_Growth>>))}

\* the locations of the region specification: a text per keyword group,
\* texts with keywords of two groups, a text with no keyword, and null
LocationPool ==
    {Str(L_SanFrancisco), Str(L_London), Str(L_Toronto), Str(L_Berlin),
     Str(L_Brussels), Str(L_Augusta), Str(L_Munich), None}

LocationLists == {List(s) : s \in Seqs(LocationPool, MaxLocs)}

\* the criteria of the direct query_pe_db calls of the ranking specification
RankCriteria ==
    {ci @@ cg @@ cd @@ cr :
        ci \in {Entry(FALSE, "industries", None),
                Entry(TRUE, "industries", EmptyList),
                Entry(TRUE, "industries", StrList(<<S_Software, S_Healthcare, S_Industrial>>))},
        cg \in {Entry(TRUE, "regions", StrList(s)) : s \in {<<>>, <<S_US>>}},
        cd \in {Entry(FALSE, "deal_type", None), Entry(TRUE, "deal_type", EmptyStr),
                Entry(TRUE, "deal_type", Str(S_Buyout))},
        cr \in {Entry(TRUE, "revenue_usd", None), Entry(TRUE, "revenue_usd", EmptyDict),
                Entry(TRUE, "revenue_usd", R(2, 2))}}

---------------------------------------------------------------------------
(* streamlit_app.py: the chat of the dashboard *)

\* st.session_state.chat, [] before the script has set it
Chat(ss) == IF "chat" \in DOMAIN ss THEN ss["chat"] ELSE <<>>

\* a dict with the key k set to v
Set(d, k, v) == [x \in DOMAIN d \cup {k} |-> IF x = k THEN v ELSE d[x]]

\* d.pop(k, None): the dict without the key k
Pop(d, k) == [x \in DOMAIN d \ {k} |-> d[x]]

\* if "chat" not in st.session_state: st.session_state.chat = []
with_chat(ss) == IF "chat" \notin DOMAIN ss THEN Set(ss, "chat", <<>>) ELSE ss

\* if clear_btn: the chat is emptied and last_submitted_context popped
after_clear(ss, clear) ==
    IF clear THEN Pop(Set(ss, "chat", <<>>), "last_submitted_context") ELSE ss

\* should_append without the test against last_submitted_context
should_append_unchecked(ss, run, msg) == run /\ msg # ""

\* if run_btn and user_msg:
\*     if st.session_state.get("last_submitted_context") != user_msg:
should_append(ss, run, msg) ==
    /\ run /\ msg # ""
    /\ ("last_submitted_context" \notin DOMAIN ss \/ ss["last_submitted_context"] # msg)

\* the context is appended to the chat and remembered
after_append(ss, run, msg) ==
    IF should_append(ss, run, msg)
    THEN Set(Set(ss, "chat", Append(ss["chat"], [role |-> "user", content |-> msg])),
             "last_submitted_context", msg)
    ELSE ss

\* st.session_state after one run of the script with the given widget values
rerun(ss, run, clear, msg) == after_append(after_clear(with_chat(ss), clear), run, msg)

\* the dashboard is not running
NoDashboard ==
    /\ session_state = <<>>
    /\ run_btn = FALSE
    /\ clear_btn = FALSE
    /\ user_msg = ""

---------------------------------------------------------------------------
(* The calls *)

NoDict == <<>>

\* a call of query_pe_db(criteria, dataset_path)
QueryPeDb ==
    /\ pc = "query_pe_db"
    /\ error' = query_error(criteria, file, dataset)
    /\ IF error' = "none"
       THEN /\ ranked' = query_pe_db(criteria, dataset)
            /\ dataset' = funds_after(dataset)
            /\ pc' = "returned_ranked"
       ELSE /\ pc' = "raised"
            /\ UNCHANGED <<dataset, ranked>>
    /\ UNCHANGED <<file, criteria, profile, top_k, out>>
    /\ UNCHANGED dashboard_vars

\* a call of shortlist_pe_funds(company_profile, dataset_path, top_k), with the
\* query_pe_db call it makes
ShortlistPeFunds ==
    /\ pc = "shortlist_pe_funds"
    /\ error' = shortlist_error(profile, file, dataset)
    /\ IF error' = "none"
       THEN /\ criteria' = derive_criteria(profile)
            /\ ranked' = query_pe_db(criteria', dataset)
            /\ dataset' = funds_after(dataset)
            /\ out' = select_shortlist(profile, ranked', top_k)
            /\ pc' = "returned_shortlist"
       ELSE /\ criteria' = IF locations_error(profile) = "none"
                           THEN derive_criteria(profile)
                           ELSE criteria
            /\ pc' = "raised"
            /\ UNCHANGED <<dataset, ranked, out>>
    /\ UNCHANGED <<file, profile, top_k>>
    /\ UNCHANGED dashboard_vars

\* The ranking specification: a dataset of several funds, and a call of
\* either function
\* the path holds a dataset, or nothing that loads
InitFile ==
    \/ file = "ok" /\ dataset \in Datasets
    \/ file \in FailingFiles /\ dataset = <<>>

InitQuery ==
    /\ InitFile
    /\ criteria \in RankCriteria
    /\ pc = "query_pe_db"
    /\ profile = NoDict
    /\ top_k = 0
    /\ ranked = <<>>
    /\ out = <<>>
    /\ error = "none"
    /\ NoDashboard

InitShortlist ==
    /\ InitFile
    /\ profile \in Profiles
    /\ top_k \in TopKs
    /\ pc = "shortlist_pe_funds"
    /\ criteria = NoDict
    /\ ranked = <<>>
    /\ out = <<>>
    /\ error = "none"
    /\ NoDashboard

Init == InitQuery \/ InitShortlist

Next == QueryPeDb \/ ShortlistPeFunds

Spec == Init /\ [][Next]_vars

\* The scoring specification: a dataset of one fund and a query_pe_db call,
\* in three families of inputs.
\* Every pair of a company revenue range and a fund revenue range:
InitRevenue ==
    \E fr \in FundRanges, cr \in FundRanges \cup {Entry(TRUE, "k", None)} :
        /\ dataset = <<Fund("FundR", <<S_Software>>, <<S_US>>, <<S_Buyout>>)
                         @@ WithKey(fr, "revenue_focus_usd")>>
        /\ criteria = [industries |-> StrList(<<S_Software>>)] @@ WithKey(cr, "revenue_usd")

\* every pair of a company employee range and a fund employee range:
InitEmployees ==
    \E fr \in FundRanges, cr \in FundRanges \cup {Entry(TRUE, "k", None)} :
        /\ dataset = <<Fund("FundE", <<S_Industrial>>, <<S_Europe>>, <<S_Growth>>)
                         @@ WithKey(fr, "employee_focus")>>
        /\ criteria = [regions |-> StrList(<<S_US>>)] @@ WithKey(cr, "employees")

\* every case of the industry, region and deal factors, the range factors
\* absent or present:
InitFactors ==
    \E fi \in FundIndustries, fg \in FundRegions, fd \in FundDeals,
       ci \in CriteriaIndustries, cg \in CriteriaRegions, cd \in CriteriaDeals,
       cr \in CriteriaRevenue, ce \in CriteriaEmployees :
        /\ dataset = <<Fund("FundI", fi, fg, fd)
                         @@ [revenue_focus_usd |-> R(1, 5), employee_focus |-> R(1, 3)]>>
        /\ criteria = ci @@ cg @@ cd @@ cr @@ ce

InitScore ==
    /\ InitRevenue \/ InitEmployees \/ InitFactors
    /\ file = "ok"
    /\ pc = "query_pe_db"
    /\ profile = NoDict
    /\ top_k = 0
    /\ ranked = <<>>
    /\ out = <<>>
    /\ error = "none"
    /\ NoDashboard

NextScore == QueryPeDb

SpecScore == InitScore /\ [][NextScore]_vars

\* The region specification: a profile with every list of locations, and a
\* shortlist_pe_funds call
InitRegions ==
    /\ file = "ok"
    /\ dataset = <<FundA, FundB, FundC>>
    /\ \E l \in LocationLists \cup {None} :
        profile = [industries |-> StrList(<<S_Software>>)]
                    @@ (IF l = None THEN <<>> ELSE [locations |-> l])
    /\ top_k = DEFAULT_TOP_K
    /\ pc = "shortlist_pe_funds"
    /\ criteria = NoDict
    /\ ranked = <<>>
    /\ out = <<>>
    /\ error = "none"
    /\ NoDashboard

NextRegions == ShortlistPeFunds

SpecRegions == InitRegions /\ [][NextRegions]_vars

\* The field specification: a dataset that loads, of a well-formed fund and
\* a fund whose optional fields are each well-formed, missing or null, a
\* profile of the same kind, and a shortlist_pe_funds call
InitFields ==
    /\ file = "ok"
    /\ \E f \in FieldFunds : dataset = <<FundA, f>>
    /\ profile \in FieldProfiles
    /\ top_k = DEFAULT_TOP_K
    /\ pc = "shortlist_pe_funds"
    /\ criteria = NoDict
    /\ ranked = <<>>
    /\ out = <<>>
    /\ error = "none"
    /\ NoDashboard

NextFields == ShortlistPeFunds

SpecFields == InitFields /\ [][NextFields]_vars

\* the texts of the context area: empty, or one of three notes
Messages == {"", "revenue 25M", "HQ in NYC", "exit options"}

\* One rerun of the dashboard script: st.button is True only in the rerun its
\* click started, so at most one of the two buttons is True; the text area
\* holds any text.  A rerun that appends is taken while the chat is short.
Rerun ==
    /\ pc = "dashboard"
    /\ \E run, clear \in BOOLEAN, msg \in Messages :
        /\ ~(run /\ clear)
        /\ should_append(after_clear(with_chat(session_state), clear), run, msg) =>
                Len(Chat(session_state)) < MaxChat
        /\ session_state' = rerun(session_state, run, clear, msg)
        /\ run_btn' = run
        /\ clear_btn' = clear
        /\ user_msg' = msg
    /\ UNCHANGED <<file, dataset, pc, criteria, profile, top_k, ranked, out, error>>

\* The dashboard specification: a new session, then any sequence of reruns
InitChat ==
    /\ NoDashboard
    /\ pc = "dashboard"
    /\ file = "ok"
    /\ dataset = <<>>
    /\ criteria = NoDict
    /\ profile = NoDict
    /\ top_k = DEFAULT_TOP_K
    /\ ranked = <<>>
    /\ out = <<>>
    /\ error = "none"

NextChat == Rerun

SpecChat == InitChat /\ [][NextChat]_vars

---------------------------------------------------------------------------
(* Properties *)

Returned == pc \in {"returned_ranked", "returned_shortlist"}

Factors == {"industry", "region", "revenue", "employees", "deal"}

RatIn01(x) == RatLeq(Zero, x) /\ RatLeq(x, One)

NameScores(s) == [i \in DOMAIN s |-> <<s[i].fund, s[i].score>>]

\* a is a subsequence of b
RECURSIVE IsSubseq(_, _)
IsSubseq(a, b) ==
    IF a = <<>> THEN TRUE
    ELSE IF b = <<>> THEN FALSE
    ELSE IF a[1] = b[1] THEN IsSubseq(Tail(a), Tail(b))
    ELSE IsSubseq(a, Tail(b))

\* the weights the specification states
StatedWeights ==
    [industry |-> Rat(4, 10), region |-> Rat(2, 10), revenue |-> Rat(2, 10),
     employees |-> Rat(1, 10), deal |-> Rat(1, 10)]

\* C1: every composite score query_pe_db reports lies in [0, 1]; the five
\* weights reported are 0.4, 0.2, 0.2, 0.1, 0.1, which sum to 1, and the raw
\* value of every applied factor lies in [0, 1].
C1_ScoreInUnitInterval ==
    Returned =>
        \A i \in DOMAIN ranked :
            LET subs == ranked[i].subscores
            IN /\ RatIn01(ranked[i].score)
               /\ \A k \in Factors : subs[k].weight = StatedWeights[k]
               /\ RatAdd(RatAdd(RatAdd(RatAdd(subs.industry.weight, subs.region.weight),
                                       subs.revenue.weight),
                                subs.employees.weight),
                         subs.deal.weight) = One
               /\ \A k \in Factors : subs[k].applied => RatIn01(subs[k].raw)

\* C1 witness: a fund scored with all five factors applied that reaches 1.0
C1_Witness ==
    /\ Returned
    /\ \E i \in DOMAIN ranked :
        /\ \A k \in Factors : ranked[i].subscores[k].applied
        /\ ranked[i].score = One

\* C2: query_pe_db returns exactly one entry per fund of the dataset, in
\* descending order of score, two funds of equal score in dataset order.
C2_RankingIsStableSort ==
    Returned =>
        /\ Len(ranked) = Len(dataset)
        /\ \A k \in DOMAIN dataset :
            Cardinality({i \in DOMAIN ranked :
                            ranked[i].match = dataset[k]
                            /\ ranked[i].fund = dataset[k]["name"]}) = 1
        /\ \A i, j \in DOMAIN ranked :
            i < j => RatLeq(ranked[j].score, ranked[i].score)
        /\ \A i, j \in DOMAIN ranked :
            (i < j /\ ranked[i].score = ranked[j].score) =>
                (CHOOSE k \in DOMAIN dataset : dataset[k] = ranked[i].match)
                    < (CHOOSE k \in DOMAIN dataset : dataset[k] = ranked[j].match)

\* C2 witness: three funds, two of them tied behind a fund that moved to the
\* front from the last place of the dataset
C2_Witness ==
    /\ Returned
    /\ Len(ranked) = 3
    /\ ranked[1].match = dataset[3]
    /\ RatLess(ranked[2].score, ranked[1].score)
    /\ ranked[2].score = ranked[3].score

\* C3: for top_k >= 0 the shortlist has at most top_k entries, each of score
\* >= 0.2, and its (fund, score) pairs are a subsequence of the ranking
\* query_pe_db computed for the derived criteria.
C3_ShortlistWithinRanking ==
    (pc = "returned_shortlist" /\ top_k >= 0) =>
        /\ Len(out) <= top_k
        /\ \A i \in DOMAIN out : RatLeq(Rat(2, 10), out[i].score)
        /\ IsSubseq(NameScores(out), NameScores(ranked))

\* C3 witness: top_k = 1 cuts off a second fund above the threshold, and a
\* third fund is below the threshold
C3_Witness ==
    /\ pc = "returned_shortlist"
    /\ top_k = 1
    /\ Len(out) = 1
    /\ Len(ranked) = 3
    /\ RatLeq(Rat(2, 10), ranked[2].score)
    /\ RatLess(ranked[3].score, Rat(2, 10))

\* a fund lists the region US, in any case
HasUS(f) == \E r \in Range(Get(f, "regions", EmptyList).v) : Lower(r.v) = <<"u", "s">>

\* a fund lists the deal type Buyout, in any case
HasBuyout(f) ==
    \E d \in Range(Get(f, "deal_types", EmptyList).v) :
        Lower(d.v) = <<"b", "u", "y", "o", "u", "t">>

\* a profile with no extracted field
ZeroFields(p) ==
    /\ ~Truthy(Get(p, "industries", EmptyList))
    /\ ~Truthy(Get(p, "locations", EmptyList))
    /\ ~Truthy(Get(p, "revenue_range_usd", None))
    /\ ~Truthy(Get(p, "employee_count_range", None))

\* C4, as stated: for a profile with no extracted field every fund is scored
\* with all five factors applied=false and score 0, and the shortlist is empty.
C4_ZeroProfileScoresNothing ==
    (pc = "returned_shortlist" /\ ZeroFields(profile)) =>
        /\ \A i \in DOMAIN ranked :
            /\ \A k \in Factors : ~ranked[i].subscores[k].applied
            /\ ranked[i].score = Zero
        /\ out = <<>>

\* C4, amended: for a profile with no extracted field the industry, revenue
\* and employees factors are applied=false, the region factor is applied
\* against the default region US and the deal factor against Buyout, so a
\* fund scores 0.2 for a US region plus 0.1 for the deal type Buyout; the
\* shortlist holds only funds with a US region, and is empty exactly when
\* top_k is 0 or no fund of the dataset has a US region.
C4_ZeroProfileDefaultsToUSBuyout ==
    (pc = "returned_shortlist" /\ ZeroFields(profile) /\ top_k >= 0) =>
        /\ \A i \in DOMAIN ranked :
            LET subs == ranked[i].subscores
            IN /\ ~subs.industry.applied /\ ~subs.revenue.applied
               /\ ~subs.employees.applied
               /\ subs.region.applied /\ subs.deal.applied
               /\ ranked[i].score =
                    RatAdd(IF HasUS(ranked[i].match) THEN Rat(2, 10) ELSE Zero,
                           IF HasBuyout(ranked[i].match) THEN Rat(1, 10) ELSE Zero)
        /\ \A i \in DOMAIN out :
            \E j \in DOMAIN dataset :
                dataset[j]["name"] = out[i].fund /\ HasUS(dataset[j])
        /\ (out = <<>>) <=> (top_k = 0 \/ \A j \in DOMAIN dataset : ~HasUS(dataset[j]))

\* C4 witness: a profile with no extracted field and a shortlist of two funds
C4_Witness ==
    /\ pc = "returned_shortlist"
    /\ ZeroFields(profile)
    /\ Len(out) = 2
    /\ Len(ranked) = 3

\* a factor is absent from the criteria
Absent(c, k) ==
    CASE k = "industry" -> ~Truthy(Get(c, "industries", EmptyList))
      [] k = "region" -> ~Truthy(Get(c, "regions", EmptyList))
      [] k = "revenue" -> ~Truthy(Get(c, "revenue_usd", None))
      [] k = "employees" -> ~Truthy(Get(c, "employees", None))
      [] k = "deal" -> ~Truthy(Get(c, "deal_type", None))

\* the weights with the weight of every absent factor set to 0
ZeroedWeights(c) == [k \in Factors |-> IF Absent(c, k) THEN Zero ELSE StatedWeights[k]]

\* C5: a factor absent from the criteria gives a subscore with applied=false
\* and no contribution, and the scores and the order of the ranking are those
\* computed with the weight of each absent factor set to 0.
C5_AbsentFactorContributesZero ==
    Returned =>
        /\ \A i \in DOMAIN ranked : \A k \in Factors :
            Absent(criteria, k) =>
                /\ ~ranked[i].subscores[k].applied
                /\ "contribution" \notin DOMAIN ranked[i].subscores[k]
        /\ NameScores(ranked)
            = NameScores(query_with_weights(criteria, dataset, ZeroedWeights(criteria)))

\* C5 witness: a ranking of three funds with an absent and a present factor,
\* the present one scoring
C5_Witness ==
    /\ Returned
    /\ Len(ranked) = 3
    /\ \E k \in Factors : Absent(criteria, k)
    /\ \E k \in Factors : ~Absent(criteria, k)
    /\ RatLess(Zero, ranked[1].score)
    /\ RatLess(ranked[3].score, ranked[1].score)

\* the sum of the contributions of the applied factors of an entry
ContributionSum(subs) ==
    LET part(k) == IF subs[k].applied THEN subs[k].contribution ELSE Zero
    IN RatAdd(RatAdd(RatAdd(RatAdd(part("industry"), part("region")), part("revenue")),
                     part("employees")),
              part("deal"))

ExampleCriteria ==
    [industries |-> StrList(<<S_Software>>), regions |-> StrList(<<S_US>>),
     deal_type |-> Str(S_Buyout)]

\* C7: with criteria {industries {Software}, regions {US}, deal_type Buyout}
\* and the dataset [FundA, FundB], FundA scores 0.7 and FundB 0.0, and the
\* shortlist with top_k = 5 holds FundA only.
C7_EndToEndExample ==
    (Returned /\ dataset = <<FundA, FundB>> /\ criteria = ExampleCriteria) =>
        /\ NameScores(ranked) = <<<<"FundA", Rat(7, 10)>>, <<"FundB", Zero>>>>
        /\ (pc = "returned_shortlist" /\ top_k = 5) =>
                NameScores(out) = <<<<"FundA", Rat(7, 10)>>>>

\* C7 witness: the shortlist call of the example has returned
C7_Witness ==
    /\ pc = "returned_shortlist"
    /\ dataset = <<FundA, FundB>>
    /\ criteria = ExampleCriteria
    /\ top_k = 5

\* a bound of a range dict is unset: the key is missing or holds None
Unset(r, k) == Get(r.v, k, None) = None

\* the containment rule of the specification, for a company range c and a
\* fund range f
Contained(c, f) ==
    /\ (Unset(c, "min") \/ Unset(f, "min") \/ c.v["min"].v >= f.v["min"].v)
    /\ (Unset(c, "max") \/ Unset(f, "max") \/ c.v["max"].v <= f.v["max"].v)

\* C8: when the criteria carry a revenue range, the revenue raw is 1.0 if the
\* company range is contained in the fund's on both bounds, an unset bound
\* being satisfied, and 0.0 otherwise; the same for employees.
C8_RangeFitIsContainment ==
    Returned =>
        \A i \in DOMAIN ranked :
            LET f == ranked[i].match
                subs == ranked[i].subscores
            IN /\ Truthy(Get(criteria, "revenue_usd", None)) =>
                    /\ subs.revenue.applied
                    /\ subs.revenue.raw =
                        IF Contained(criteria["revenue_usd"],
                                     Get(f, "revenue_focus_usd", EmptyDict))
                        THEN One ELSE Zero
               /\ Truthy(Get(criteria, "employees", None)) =>
                    /\ subs.employees.applied
                    /\ subs.employees.raw =
                        IF Contained(criteria["employees"],
                                     Get(f, "employee_focus", EmptyDict))
                        THEN One ELSE Zero

\* C8 witness: a company revenue range that touches the fund's lower bound
\* and fits, the upper bound of the company being unset
C8_Witness ==
    /\ Returned
    /\ \E i \in DOMAIN ranked :
        /\ Truthy(Get(criteria, "revenue_usd", None))
        /\ criteria["revenue_usd"] = Dict([min |-> Num(2), max |-> None])
        /\ Get(ranked[i].match, "revenue_focus_usd", EmptyDict) = R(2, 3)
        /\ ranked[i].subscores.revenue.raw = One

\* the four bounds of a range factor are set, the company range is a single
\* point, and the point lies in the fund's range
PointInside(c, f) ==
    /\ ~Unset(c, "min") /\ ~Unset(c, "max") /\ ~Unset(f, "min") /\ ~Unset(f, "max")
    /\ c.v["min"].v = c.v["max"].v
    /\ f.v["min"].v <= c.v["min"].v
    /\ c.v["max"].v <= f.v["max"].v

\* C9: for a company revenue range that is a single point inside the fund's
\* range, binary_fit is 1.0 and coverage_ratio is about 1.0 (at least 0.99).
C9_PointRangeIsCovered ==
    Returned =>
        \A i \in DOMAIN ranked :
            (/\ Truthy(Get(criteria, "revenue_usd", None))
             /\ PointInside(criteria["revenue_usd"],
                            Get(ranked[i].match, "revenue_focus_usd", EmptyDict))) =>
                /\ ranked[i].subscores.revenue.binary_fit = One
                /\ ranked[i].subscores.revenue.coverage_ratio # None
                /\ RatLeq(Rat(99, 100), ranked[i].subscores.revenue.coverage_ratio)

\* what C10 says of the coverage ratio cov of a company range c in a fund
\* range f
CoverageAsStated(cov, c, f) ==
    IF Unset(c, "min") \/ Unset(c, "max") \/ Unset(f, "min") \/ Unset(f, "max")
    THEN cov = None
    ELSE LET cmin == c.v["min"].v
             cmax == c.v["max"].v
             fmin == f.v["min"].v
             fmax == f.v["max"].v
             inter == Max(0, Min(cmax, fmax) - Max(cmin, fmin))
         IN /\ cov # None
            /\ IF cmax < cmin \/ fmax < fmin THEN cov = Zero
               ELSE /\ RatIn01(cov)
                    /\ cov.n * (cmax - cmin) = inter * cov.d

\* C10: _range_coverage returns None, not 0, when one of the four bounds is
\* absent; 0 when cmax < cmin or fmax < fmin; and otherwise a value in [0, 1]
\* that is the length of the intersection divided by the length of the
\* company interval (stated as ratio x company length = intersection length,
\* which is also defined for a company interval of length 0).
C10_RangeCoverage ==
    Returned =>
        \A i \in DOMAIN ranked :
            LET f == ranked[i].match
                subs == ranked[i].subscores
            IN /\ subs.revenue.applied =>
                    CoverageAsStated(subs.revenue.coverage_ratio,
                                     criteria["revenue_usd"],
                                     Get(f, "revenue_focus_usd", EmptyDict))
               /\ subs.employees.applied =>
                    CoverageAsStated(subs.employees.coverage_ratio,
                                     criteria["employees"],
                                     Get(f, "employee_focus", EmptyDict))

\* C10 witness: a company range that the fund's range covers in part
C10_Witness ==
    /\ Returned
    /\ \E i \in DOMAIN ranked :
        /\ ranked[i].subscores.revenue.applied
        /\ ranked[i].subscores.revenue.coverage_ratio # None
        /\ RatLess(Zero, ranked[i].subscores.revenue.coverage_ratio)
        /\ RatLess(ranked[i].subscores.revenue.coverage_ratio, One)

\* the lower-cased elements of a list of str, as a set
Folded(l) == {Lower(x.v) : x \in Range(l.v)}

\* C11: when the criteria have industries, the industry raw is the number of
\* criteria industries that occur in the fund's industries, both taken as
\* sets of lower-cased names, divided by max(1, the number of distinct
\* criteria industries).
C11_IndustryRawIsOverlapRatio ==
    Returned =>
        \A i \in DOMAIN ranked :
            LET c == Get(criteria, "industries", EmptyList)
                f == Get(ranked[i].match, "industries", EmptyList)
                sub == ranked[i].subscores.industry
            IN Truthy(c) =>
                /\ sub.applied
                /\ sub.raw.n * Max(1, Cardinality(Folded(c)))
                    = Cardinality(Folded(c) \cap Folded(f)) * sub.raw.d

\* C11 witness: two of three criteria industries occur in the fund's, one of
\* them in another case, so that raw is 2/3
C11_Witness ==
    /\ Returned
    /\ \E i \in DOMAIN ranked :
        /\ Len(Get(criteria, "industries", EmptyList).v) = 3
        /\ Get(ranked[i].match, "industries", EmptyList) = StrList(<<S_SOFTWARE, S_Industrial>>)
        /\ ranked[i].subscores.industry.raw = Rat(2, 3)

\* C12: when the criteria specify a deal type, the deal raw is 1.0 if and
\* only if that type, compared case-insensitively, is one of the fund's
\* deal_types, and 0.0 otherwise; for a Buyout request a fund with
\* deal_types [Growth, Minority] or [Majority, Control] gets raw 0.0 and
\* contribution 0.0.
C12_DealIsExactMatch ==
    Returned =>
        \A i \in DOMAIN ranked :
            LET d == Get(criteria, "deal_type", None)
                f == Get(ranked[i].match, "deal_types", EmptyList)
                sub == ranked[i].subscores.deal
            IN Truthy(d) =>
                /\ sub.applied
                /\ sub.raw = (IF Lower(d.v) \in Folded(f) THEN One ELSE Zero)
                /\ (d = Str(S_Buyout)
                    /\ f \in {StrList(<<S_Growth, S_Minority>>),
                              StrList(<<S_Majority, S_Control>>)}) =>
                        sub.raw = Zero /\ sub.contribution = Zero

\* C12 witness: a Buyout request scored against a fund that lists
\* [Majority, Control] and matches on the industry and the region only
C12_Witness ==
    /\ Returned
    /\ Get(criteria, "deal_type", None) = Str(S_Buyout)
    /\ \E i \in DOMAIN ranked :
        /\ ranked[i].match["deal_types"] = StrList(<<S_Majority, S_Control>>)
        /\ ranked[i].subscores.deal.raw = Zero
        /\ ranked[i].subscores.deal.contribution = Zero
        /\ ranked[i].subscores.industry.applied
        /\ ranked[i].subscores.industry.raw = One

\* C13: when the criteria have regions, the region raw is 1.0 if a criteria
\* region equals a region of the fund case-insensitively and 0.0 otherwise,
\* never a value strictly between, whatever the number of common regions.
C13_RegionIsBinary ==
    Returned =>
        \A i \in DOMAIN ranked :
            LET c == Get(criteria, "regions", EmptyList)
                f == Get(ranked[i].match, "regions", EmptyList)
                sub == ranked[i].subscores.region
            IN Truthy(c) =>
                /\ sub.applied
                /\ sub.raw = (IF Folded(c) \cap Folded(f) # {} THEN One ELSE Zero)
                /\ ~(RatLess(Zero, sub.raw) /\ RatLess(sub.raw, One))

\* C13 witness: both criteria regions are regions of the fund, one of them
\* in another case, and raw is 1.0
C13_Witness ==
    /\ Returned
    /\ \E i \in DOMAIN ranked :
        /\ Get(criteria, "regions", EmptyList) = StrList(<<S_US, S_Canada>>)
        /\ ranked[i].match["regions"] = StrList(<<S_us, S_Canada>>)
        /\ ranked[i].subscores.region.overlap_count = 2
        /\ ranked[i].subscores.region.raw = One

\* the values of a list of str, as a set
Values(l) == {x.v : x \in Range(l.v)}

\* C14: shortlist_pe_funds derives the regions {US} from the locations
\* ["San Francisco, California, USA"], {Europe} from ["London, UK"], and the
\* default {US} from no locations and from locations none of which holds a
\* keyword.
C14_RegionDerivationExamples ==
    pc = "returned_shortlist" =>
        LET locs == Get(profile, "locations", EmptyList)
            regions == Values(criteria["regions"])
        IN /\ locs = StrList(<<L_SanFrancisco>>) => regions = {S_US}
           /\ locs = StrList(<<L_London>>) => regions = {S_Europe}
           /\ (\A i \in DOMAIN locs.v : locs.v[i] \in {Str(L_Berlin), None}) =>
                regions = {S_US}

\* C14 witness: the call for ["London, UK"] has returned with a fund of the
\* region Europe in the ranking
C14_Witness ==
    /\ pc = "returned_shortlist"
    /\ Get(profile, "locations", EmptyList) = StrList(<<L_London>>)
    /\ Values(criteria["regions"]) = {S_Europe}
    /\ \E i \in DOMAIN ranked : ranked[i].subscores.region.raw = One

\* a factor scored positively: it was applied and its raw value is above 0
Positive(sub) == sub.applied /\ RatLess(Zero, sub.raw)

\* C15: the summary of every shortlist entry names exactly the factors that
\* scored positively: it contains 'industry fit' iff the industry raw is > 0,
\* 'region fit' iff the region raw is > 0, 'revenue range compatible' iff
\* the revenue raw is > 0, 'employee range compatible' iff the employees raw
\* is > 0, and it is 'generalist flexibility' iff none of the four is > 0.
C15_SummaryNamesPositiveFactors ==
    pc = "returned_shortlist" =>
        \A i \in DOMAIN out :
            LET summary == out[i].rationale.summary
                subs == out[i].rationale.subscores
            IN /\ Contains(summary, R_industry) <=> Positive(subs.industry)
               /\ Contains(summary, R_region) <=> Positive(subs.region)
               /\ Contains(summary, R_revenue) <=> Positive(subs.revenue)
               /\ Contains(summary, R_employees) <=> Positive(subs.employees)
               /\ (summary = R_generalist) <=>
                    (/\ ~Positive(subs.industry) /\ ~Positive(subs.region)
                     /\ ~Positive(subs.revenue) /\ ~Positive(subs.employees))

LoadErrors == {"FileNotFoundError", "PermissionError", "JSONDecodeError"}

\* C16: when the dataset path is missing, unreadable or does not parse, the
\* call ends in an error raised by the load, with no fund scored and no list
\* returned; so a call that returned a list, empty or not, has loaded the
\* dataset.
C16_LoadFailureRaises ==
    /\ file # "ok" =>
        /\ pc \in {"query_pe_db", "shortlist_pe_funds", "raised"}
        /\ pc = "raised" => error \in LoadErrors
        /\ ranked = <<>> /\ out = <<>>
    /\ Returned => file = "ok" /\ error = "none"
    /\ error \in LoadErrors => file # "ok" /\ pc = "raised"

\* C16 witness: shortlist_pe_funds has raised for a file that does not parse
C16_Witness ==
    /\ pc = "raised"
    /\ file = "unparsable"
    /\ error = "JSONDecodeError"
    /\ profile # NoDict

\* a dict without the keys that hold null
Strip(d) == [k \in {x \in DOMAIN d : x = "name" \/ d[x] # None} |-> d[k]]

\* C17: for a dataset whose records all have a name, with each optional
\* field of the profile and of each fund well-formed, missing or null,
\* shortlist_pe_funds returns a list and raises nothing, the list being the
\* one it returns when every null field is left out.
C17_MissingOrNullFieldsNeverRaise ==
    /\ pc # "raised"
    /\ pc = "returned_shortlist" =>
        LET p == Strip(profile)
            funds == [i \in DOMAIN dataset |-> Strip(dataset[i])]
        IN NameScores(out)
            = NameScores(select_shortlist(p, query_pe_db(derive_criteria(p), funds),
                                          top_k))

\* the entries of a ranking whose score reaches the threshold 0.2
Qualifying(rk) == SelectSeq(rk, LAMBDA x : RatLeq(Rat(2, 10), x.score))

\* the shortlist o under-fills for the ranking rk and k: it has fewer entries
\* than min(k, number of funds with score >= 0.2), and so differs from
\* filtering the full ranking and truncating to k
Underfills(o, rk, k) ==
    /\ Len(o) < Min(k, Len(Qualifying(rk)))
    /\ NameScores(o) # NameScores(Prefix(Qualifying(rk), k))

\* C18, as stated: there are a dataset, a profile and a top_k >= 1 for which
\* the over-fetch policy of shortlist_pe_funds under-fills the shortlist
\* (a statement about all inputs at once, looked at when a call has returned).
C18_OverFetchUnderfills ==
    pc = "returned_shortlist" =>
        \E d \in Datasets, p \in Profiles, k \in TopKs \ {0} :
            LET rk == query_pe_db(derive_criteria(p), d)
            IN Underfills(select_shortlist(p, rk, k), rk, k)

\* C18, amended: for every dataset, profile and top_k >= 1 the shortlist has
\* exactly min(top_k, number of funds with score >= 0.2) entries and is the
\* full ranking filtered by the threshold and truncated to top_k: the
\* ranking is in descending order, so a fund that qualifies behind the first
\* 2 x top_k entries has top_k qualifying funds before it.
C18_OverFetchNeverUnderfills ==
    (pc = "returned_shortlist" /\ top_k >= 1) =>
        /\ Len(out) = Min(top_k, Len(Qualifying(ranked)))
        /\ NameScores(out) = NameScores(Prefix(Qualifying(ranked), top_k))
        /\ ~Underfills(out, ranked, top_k)

\* C18 witness: top_k = 1, and a fund that qualifies lies behind the first
\* 2 x top_k entries of the ranking
C18_Witness ==
    /\ pc = "returned_shortlist"
    /\ top_k = 1
    /\ Len(ranked) = 3
    /\ RatLeq(Rat(2, 10), ranked[3].score)
    /\ Len(out) = 1

\* C19: a call of query_pe_db or shortlist_pe_funds leaves the loaded funds
\* as they were, each record with its field values and the sequence in its
\* order, and the company profile too; the match of every scored entry is a
\* record of the dataset as it was before the call.
C19_ScoringMutatesNothing ==
    [][/\ dataset' = dataset
       /\ profile' = profile
       /\ \A i \in DOMAIN ranked' :
            \E k \in DOMAIN dataset :
                ranked'[i].match = dataset[k] /\ ranked'[i].fund = dataset[k]["name"]]_vars

\* C19 witness: a shortlist call has returned a ranking led by the last fund
\* of the dataset, a fund without the optional range fields
C19_Witness ==
    /\ pc = "returned_shortlist"
    /\ Len(dataset) = 3
    /\ ranked[1].match = dataset[3]
    /\ RatLess(ranked[2].score, ranked[1].score)
    /\ "revenue_focus_usd" \notin DOMAIN dataset[3]
    /\ "industries" \in DOMAIN profile

\* the lower-cased text of a location holds a keyword of the group
HoldsKeyword(loc, group) ==
    \E i \in DOMAIN group : Contains(Lower(Or(loc, EmptyStr).v), group[i])

\* the label C20 gives a location: that of the first group, in the order US,
\* Canada, Europe, of which the text holds a keyword; <<>> when it holds none
StatedLabel(loc) ==
    CASE HoldsKeyword(loc, US_KEYWORDS) -> S_US
      [] ~HoldsKeyword(loc, US_KEYWORDS) /\ HoldsKeyword(loc, CANADA_KEYWORDS) -> S_Canada
      [] /\ ~HoldsKeyword(loc, US_KEYWORDS) /\ ~HoldsKeyword(loc, CANADA_KEYWORDS)
         /\ HoldsKeyword(loc, EUROPE_KEYWORDS) -> S_Europe
      [] OTHER -> <<>>

\* the index of the first location with the label x
FirstWith(locs, x) == CHOOSE i \in DOMAIN locs :
    StatedLabel(locs[i]) = x /\ \A j \in 1..(i - 1) : StatedLabel(locs[j]) # x

\* C20: each location gives at most one label, that of the first keyword
\* group in the order US, Canada, Europe of which its lower-cased text holds
\* a keyword, so that a text with 'us' or 'ny' in it gives US even when it
\* holds a Canada or a Europe keyword too; the derived regions are labels
\* among US, Canada, Europe, without duplicates, in the order of the first
\* location that gave each.
C20_RegionLabelsInFirstSeenOrder ==
    pc = "returned_shortlist" =>
        LET locs == Get(profile, "locations", EmptyList).v
            given == {StatedLabel(locs[i]) : i \in DOMAIN locs} \ {<<>>}
            regs == [i \in DOMAIN criteria["regions"].v |-> criteria["regions"].v[i].v]
        IN /\ given # {} =>
                /\ Range(regs) = given
                /\ Range(regs) \subseteq {S_US, S_Canada, S_Europe}
                /\ \A a, b \in DOMAIN regs : regs[a] = regs[b] => a = b
                /\ \A a, b \in DOMAIN regs :
                        a < b => FirstWith(locs, regs[a]) < FirstWith(locs, regs[b])
           /\ \A x \in {Str(L_Brussels), Str(L_Augusta), Str(L_Munich)} :
                locs = <<x>> => regs = <<S_US>>

\* C20 witness: three locations, the second with a US and a Canada keyword,
\* give three labels in the order Canada, US, Europe
C20_Witness ==
    /\ pc = "returned_shortlist"
    /\ Get(profile, "locations", EmptyList)
        = List(<<Str(L_Toronto), Str(L_Augusta), Str(L_London)>>)
    /\ criteria["regions"] = StrList(<<S_Canada, S_US, S_Europe>>)

\* last_submitted_context is set in the session state ss
LastSet(ss) == "last_submitted_context" \in DOMAIN ss

\* whenever the chat is non-empty last_submitted_context is the content of its
\* last entry, and no two adjacent entries are identical
ChatInvariant ==
    LET chat == Chat(session_state)
    IN /\ chat # <<>> =>
            /\ LastSet(session_state)
            /\ session_state["last_submitted_context"] = chat[Len(chat)].content
       /\ \A i \in 1..(Len(chat) - 1) : chat[i] # chat[i + 1]

\* a rerun changes the chat only by appending the context message, and only
\* when Analyze is clicked with a non-empty message other than
\* last_submitted_context; a rerun with Clear chat clicked leaves the chat
\* empty and last_submitted_context unset
ChatStep ==
    /\ Chat(session_state') # Chat(session_state) /\ ~clear_btn' =>
            /\ run_btn' /\ user_msg' # ""
            /\ ~LastSet(session_state)
                \/ session_state["last_submitted_context"] # user_msg'
            /\ Chat(session_state')
                = Append(Chat(session_state), [role |-> "user", content |-> user_msg'])
    /\ clear_btn' => Chat(session_state') = <<>> /\ ~LastSet(session_state')

\* C21: over any sequence of reruns of the dashboard a context message is
\* appended to the chat only on a rerun where Analyze is clicked with a
\* non-empty message different from last_submitted_context; whenever the chat
\* is non-empty last_submitted_context equals the content of its last entry,
\* no two adjacent chat entries are identical, and Clear chat leaves the chat
\* empty with last_submitted_context unset.
C21_ChatAppendsOnlyNewContext == []ChatInvariant /\ [][ChatStep]_vars

\* C21 witness: Analyze is clicked with a message that is already the first
\* of the three entries of the chat, another message lying between
C21_Witness ==
    /\ pc = "dashboard"
    /\ run_btn /\ user_msg # ""
    /\ Len(Chat(session_state)) = 3
    /\ Chat(session_state)[1].content = user_msg
    /\ Chat(session_state)[3].content = user_msg
    /\ Chat(session_state)[2].content # user_msg

=============================================================================
